---- MODULE Spec2Model ----
(***************************************************************************)
(* The call-analyzer single-page client: the Dashboard page (list of       *)
(* calls, upload -> transcribe -> analyze pipeline) and the CallDetails    *)
(* page (one call's record, report export), routed by App.                 *)
(*                                                                         *)
(* Every action is one run-to-completion piece of JavaScript: an event     *)
(* handler up to its first await, or the continuation of an async function *)
(* from the settling of the request it awaits up to its next await.  The   *)
(* backend is the environment: every pending request may succeed with any  *)
(* payload of a small set, or be rejected, in any order.                   *)
(*                                                                         *)
(* React state lives in a mounted component.  A continuation that outlives *)
(* its component keeps running (promises are not cancelled): its HTTP      *)
(* requests, toasts, timers and navigate() calls still happen, its state   *)
(* setters do nothing.  The Dashboard variables keep the last state of the *)
(* last Dashboard while no Dashboard is mounted, and likewise CallDetails. *)
(*                                                                         *)
(* The user acts through the page: the file input, View Details, Back and  *)
(* the export buttons.  The browser's own back and forward are left out.   *)
(***************************************************************************)
EXTENDS Bags, FiniteSets, Integers, Sequences, TLC

\* Number of user events that start something (a file selection, a click on
\* View Details, Back or an export button) a behaviour may hold.
MaxEvents == 4

Root == "/"
Null == "null"
CallIds == {"c1", "c2"}
Formats == {"csv", "pdf"}
\* Payloads of GET /calls: lists of call records, a record reduced to its id.
ListPayloads == {<<>>, <<"c1", "c2">>}

VARIABLES
    route,          \* Root, or the callId of /call/:callId
    calls,          \* Dashboard state
    uploading,      \* Dashboard state
    uploadProgress, \* Dashboard state
    listReqs,       \* bag of pending mount-time GET /calls, [live]
    runs,           \* the handleFileUpload invocations, in order of start
    callData,       \* CallDetails state
    loading,        \* CallDetails state
    detailReqs,     \* bag of pending GET /calls/:id, [callId, live]
    exportReqs,     \* bag of pending GET /export/:id/:format
    events,         \* user events so far
    toast,          \* toasts shown by the last step
    sent,           \* HTTP requests issued by the last step
    download,       \* browser downloads triggered by the last step
    resp,           \* the response the last step received, if any
    last            \* the last step: [op, run, arg, live]

vars == <<route, calls, uploading, uploadProgress, listReqs, runs, callData,
          loading, detailReqs, exportReqs, events, toast, sent, download, resp,
          last>>

dashVars == <<calls, uploading, uploadProgress>>
detailVars == <<callData, loading>>

----------------------------------------------------------------------------
\* Requests, by URL.

ApiCalls == [ep |-> "calls", id |-> Null, format |-> Null]
ApiUploadCall == [ep |-> "upload-call", id |-> Null, format |-> Null]
ApiTranscribe(callId) == [ep |-> "transcribe", id |-> callId, format |-> Null]
ApiAnalyze(callId) == [ep |-> "analyze", id |-> callId, format |-> Null]
ApiCall(callId) == [ep |-> "call", id |-> callId, format |-> Null]
ApiExport(callId, format) == [ep |-> "export", id |-> callId, format |-> format]

\* The record the backend holds for a call, as GET /calls/:id returns it.
CallRecord(c) == [id |-> c, filename |-> <<c, ".mp3">>]
\* callData before any record arrived (useState(null)).
NullData == [id |-> Null, filename |-> <<>>]
\* The blob GET /export/:id/:format returns.
ExportBlob(c, f) == [report |-> c, format |-> f]

\* A step: the handler or continuation that ran, the pipeline run it belongs
\* to (0: none), its argument (a format or call id) and, for the settling of
\* a request, whether the component that issued it was still mounted and
\* whether it issued it on mount; for a navigation, whether it mounted
\* CallDetails.
\* What a settled request delivered: response.data of a fulfilled one, by
\* the endpoint it came from; nothing of a rejected one.
NoResponse ==
    [status |-> "none", call_id |-> Null, list |-> <<>>, record |-> NullData,
     blob |-> ExportBlob(Null, Null)]
Rejected == [NoResponse EXCEPT !.status = "rejected"]
UploadResponse(id) == [NoResponse EXCEPT !.status = "ok", !.call_id = id]
EmptyResponse == [NoResponse EXCEPT !.status = "ok"]
ListResponse(data) == [NoResponse EXCEPT !.status = "ok", !.list = data]
RecordResponse(c) == [NoResponse EXCEPT !.status = "ok", !.record = CallRecord(c)]
BlobResponse(c, f) == [NoResponse EXCEPT !.status = "ok", !.blob = ExportBlob(c, f)]

Step(op, r, arg, live) ==
    [op |-> op, run |-> r, arg |-> arg, live |-> live, mount |-> FALSE]
StepDetail(op, q) ==
    [op |-> op, run |-> 0, arg |-> q.callId, live |-> q.live, mount |-> q.mount]

\* sonner's toast.success and toast.error.
ToastSuccess(text) == [kind |-> "success", text |-> text]
ToastError(text) == [kind |-> "error", text |-> text]

\* error.response?.data?.detail of a rejected pipeline request, if any.
ErrorDetails == {Null, "Unsupported file format"}

\* The values handleFileUpload gives uploadProgress.
ProgressSelected == 10
ProgressUploading == 30
ProgressUploaded == 50
\* Mutant: the bar steps back after the transcription.
ProgressTranscribedLow == ProgressUploaded - 10
ProgressTranscribed == 75
ProgressAnalyzed == 100

----------------------------------------------------------------------------
\* One handleFileUpload invocation.  pc is the await it is suspended at;
\* callId is its local constant; live says its Dashboard is still mounted.
\* respId, reqs, ok, rejected, errToasts and navTo record what it has done.

NewRun == [pc |-> "start", live |-> FALSE, callId |-> Null, respId |-> Null,
            reqs |-> <<>>, ok |-> {}, rejected |-> Null, errToasts |-> 0,
            navTo |-> Null]

Pending(r) == runs[r].pc \in {"upload", "transcribe", "analyze"}
InProgress(r) == runs[r].pc \in {"upload", "transcribe", "analyze", "refresh", "timer"}

\* The requests a continuation issued: what it appended to reqs.
NewReqs(old, new) == SubSeq(new.reqs, Len(old.reqs) + 1, Len(new.reqs))

\* React drops the state updates of an unmounted component.
SetState(live, new, old) == IF live THEN new ELSE old

Detach(rs) == [r \in DOMAIN rs |-> [rs[r] EXCEPT !.live = FALSE]]
DetachReq(q) == [q EXCEPT !.live = FALSE]

----------------------------------------------------------------------------
\* App: what a change of location mounts and unmounts.

\* The request of fetchCallDetails, called by the effect of CallDetails on
\* mount (mount = TRUE) and again whenever callId changed.
DetailRequest(c, mount) == [callId |-> c, live |-> TRUE, mount |-> mount]

\* navigate(`/call/${c}`), with rs the runs as the caller leaves them.
\* From the Dashboard: the Dashboard unmounts and CallDetails mounts.  From
\* a call page: CallDetails stays mounted and its effect runs again when
\* callId changed.
NavigateCall(c, rs) ==
    /\ route' = c
    /\ IF route = Root
         THEN /\ runs' = Detach(rs)
              /\ listReqs' = BagOfAll(DetachReq, listReqs)
              /\ callData' = NullData
              /\ loading' = TRUE
              /\ detailReqs' = detailReqs (+) SetToBag({DetailRequest(c, TRUE)})
              /\ sent' = <<ApiCall(c)>>
         ELSE /\ runs' = rs
              /\ listReqs' = listReqs
              /\ UNCHANGED detailVars
              /\ IF c # route
                   THEN /\ detailReqs' = detailReqs (+) SetToBag({DetailRequest(c, FALSE)})
                        /\ sent' = <<ApiCall(c)>>
                   ELSE /\ detailReqs' = detailReqs
                        /\ sent' = <<>>

\* navigate("/") from a call page: CallDetails unmounts, a new Dashboard
\* mounts and its effect calls fetchCalls.
NavigateRoot ==
    /\ route' = Root
    /\ detailReqs' = BagOfAll(DetachReq, detailReqs)
    /\ calls' = <<>>
    /\ uploading' = FALSE
    /\ uploadProgress' = 0
    /\ listReqs' = listReqs (+) SetToBag({[live |-> TRUE]})
    /\ sent' = <<ApiCalls>>
    /\ UNCHANGED <<runs, detailVars>>

----------------------------------------------------------------------------
\* Dashboard.

\* The page is opened at "/": the Dashboard is mounted and its mount effect
\* has called fetchCalls.
Init ==
    /\ route = Root
    /\ calls = <<>>
    /\ uploading = FALSE
    /\ uploadProgress = 0
    /\ listReqs = SetToBag({[live |-> TRUE]})
    /\ runs = <<>>
    /\ callData = NullData
    /\ loading = TRUE
    /\ detailReqs = EmptyBag
    /\ exportReqs = EmptyBag
    /\ events = 0
    /\ toast = <<>>
    /\ sent = <<ApiCalls>>
    /\ download = <<>>
    /\ resp = NoResponse
    /\ last = Step("mount", 0, Null, TRUE)

\* Mutant: the payload is appended to the list instead of replacing it.
FetchCallsOkAppend(q, data) ==
    /\ BagIn(q, listReqs)
    /\ listReqs' = listReqs (-) SetToBag({q})
    /\ calls' = SetState(q.live, calls \o data, calls)
    /\ toast' = <<>>
    /\ sent' = <<>>
    /\ download' = <<>>
    /\ resp' = ListResponse(data)
    /\ last' = Step("fetchCallsOk", 0, Null, q.live)
    /\ UNCHANGED <<route, uploading, uploadProgress, runs, detailVars,
                   detailReqs, exportReqs, events>>

\* fetchCalls called by the mount effect: the request succeeds.
FetchCallsOk(q, data) ==
    /\ BagIn(q, listReqs)
    /\ listReqs' = listReqs (-) SetToBag({q})
    /\ resp' = ListResponse(data)
    /\ calls' = SetState(q.live, resp'.list, calls)
    /\ toast' = <<>>
    /\ sent' = <<>>
    /\ download' = <<>>
    /\ last' = Step("fetchCallsOk", 0, Null, q.live)
    /\ UNCHANGED <<route, uploading, uploadProgress, runs, detailVars,
                   detailReqs, exportReqs, events>>

\* fetchCalls called by the mount effect: the request is rejected.
FetchCallsFail(q) ==
    /\ BagIn(q, listReqs)
    /\ listReqs' = listReqs (-) SetToBag({q})
    /\ toast' = <<ToastError("Failed to load calls")>>
    /\ sent' = <<>>
    /\ download' = <<>>
    /\ resp' = Rejected
    /\ last' = Step("fetchCallsFail", 0, Null, q.live)
    /\ UNCHANGED <<route, dashVars, runs, detailVars, detailReqs, exportReqs,
                   events>>

\* The run a file selection starts: what handleFileUpload has done when it
\* suspends at the upload request (progress 10, then 30, in one handler).
StartRun ==
    [NewRun EXCEPT !.pc = "upload", !.live = TRUE, !.reqs = <<ApiUploadCall>>]

\* handleFileUpload with a file.  The input is disabled while uploading.
HandleFileUpload ==
    /\ route = Root
    /\ ~uploading
    /\ events < MaxEvents
    /\ events' = events + 1
    /\ uploading' = TRUE
    /\ uploadProgress' = ProgressUploading  \* after ProgressSelected, same handler
    /\ runs' = Append(runs, StartRun)
    /\ toast' = <<>>
    /\ sent' = <<ApiUploadCall>>
    /\ download' = <<>>
    /\ resp' = NoResponse
    /\ last' = Step("handleFileUpload", Len(runs'), Null, TRUE)
    /\ UNCHANGED <<route, calls, listReqs, detailVars, detailReqs, exportReqs>>

\* handleFileUpload with no file (the selection was cancelled): it returns.
HandleNoFile ==
    /\ route = Root
    /\ ~uploading
    /\ toast' = <<>>
    /\ sent' = <<>>
    /\ download' = <<>>
    /\ resp' = NoResponse
    /\ last' = Step("handleNoFile", 0, Null, TRUE)
    /\ UNCHANGED <<route, dashVars, listReqs, runs, detailVars, detailReqs,
                   exportReqs, events>>

\* Mutant: callId read before the response is destructured.
AfterUploadStaleId(run, id) ==
    [run EXCEPT !.pc = "transcribe", !.respId = id,
                !.ok = @ \cup {"upload-call"},
                !.reqs = Append(@, ApiTranscribe(run.callId))]

\* handleFileUpload after the upload request succeeded with call_id = id.
AfterUpload(run, id) ==
    LET callId == id
    IN  [run EXCEPT !.pc = "transcribe", !.callId = callId, !.respId = id,
                    !.ok = @ \cup {"upload-call"},
                    !.reqs = Append(@, ApiTranscribe(callId))]

UploadOk(r, id) ==
    /\ runs[r].pc = "upload"
    /\ resp' = UploadResponse(id)
    /\ runs' = [runs EXCEPT ![r] = AfterUpload(@, resp'.call_id)]
    /\ uploadProgress' = SetState(runs[r].live, ProgressUploaded, uploadProgress)
    /\ toast' = <<ToastSuccess("File uploaded! Starting transcription...")>>
    /\ sent' = NewReqs(runs[r], runs'[r])
    /\ download' = <<>>
    /\ last' = Step("uploadOk", r, Null, runs[r].live)
    /\ UNCHANGED <<route, calls, uploading, listReqs, detailVars, detailReqs,
                   exportReqs, events>>

\* handleFileUpload after the transcribe request succeeded.
AfterTranscribe(run) ==
    [run EXCEPT !.pc = "analyze", !.ok = @ \cup {"transcribe"},
                !.reqs = Append(@, ApiAnalyze(run.callId))]

TranscribeOk(r) ==
    /\ runs[r].pc = "transcribe"
    /\ runs' = [runs EXCEPT ![r] = AfterTranscribe(@)]
    /\ uploadProgress' = SetState(runs[r].live, ProgressTranscribed, uploadProgress)
    /\ toast' = <<ToastSuccess("Transcription complete! Analyzing call...")>>
    /\ sent' = NewReqs(runs[r], runs'[r])
    /\ download' = <<>>
    /\ resp' = EmptyResponse
    /\ last' = Step("transcribeOk", r, Null, runs[r].live)
    /\ UNCHANGED <<route, calls, uploading, listReqs, detailVars, detailReqs,
                   exportReqs, events>>

\* handleFileUpload after the analyze request succeeded: it calls fetchCalls
\* and awaits it.
AfterAnalyze(run) ==
    [run EXCEPT !.pc = "refresh", !.ok = @ \cup {"analyze"},
                !.reqs = Append(@, ApiCalls)]

AnalyzeOk(r) ==
    /\ runs[r].pc = "analyze"
    /\ runs' = [runs EXCEPT ![r] = AfterAnalyze(@)]
    /\ uploadProgress' = SetState(runs[r].live, ProgressAnalyzed, uploadProgress)
    /\ toast' = <<ToastSuccess("Analysis complete!")>>
    /\ sent' = NewReqs(runs[r], runs'[r])
    /\ download' = <<>>
    /\ resp' = EmptyResponse
    /\ last' = Step("analyzeOk", r, Null, runs[r].live)
    /\ UNCHANGED <<route, calls, uploading, listReqs, detailVars, detailReqs,
                   exportReqs, events>>

\* handleFileUpload after the awaited fetchCalls returned: setTimeout.
AfterRefresh(run) == [run EXCEPT !.pc = "timer"]

\* The fetchCalls the run awaits: the request succeeds.
RefreshOk(r, data) ==
    /\ r \in DOMAIN runs
    /\ runs[r].pc = "refresh"
    /\ runs' = [runs EXCEPT ![r] = AfterRefresh(@)]
    /\ resp' = ListResponse(data)
    /\ calls' = SetState(runs[r].live, resp'.list, calls)
    /\ toast' = <<>>
    /\ sent' = <<>>
    /\ download' = <<>>
    /\ last' = Step("refreshOk", r, Null, runs[r].live)
    /\ UNCHANGED <<route, uploading, uploadProgress, listReqs, detailVars,
                   detailReqs, exportReqs, events>>

\* The fetchCalls the run awaits: the request is rejected; fetchCalls
\* catches the error itself and returns normally.
RefreshFail(r) ==
    /\ r \in DOMAIN runs
    /\ runs[r].pc = "refresh"
    /\ runs' = [runs EXCEPT ![r] = AfterRefresh(@)]
    /\ toast' = <<ToastError("Failed to load calls")>>
    /\ sent' = <<>>
    /\ download' = <<>>
    /\ resp' = Rejected
    /\ last' = Step("refreshFail", r, Null, runs[r].live)
    /\ UNCHANGED <<route, dashVars, listReqs, detailVars, detailReqs,
                   exportReqs, events>>

\* Mutant: the callback navigates to the list route instead of the call.
AfterTimerNoCall(run) == [run EXCEPT !.pc = "done", !.navTo = Root]

\* The setTimeout callback, one second after fetchCalls returned.
AfterTimer(run) == [run EXCEPT !.pc = "done", !.navTo = run.callId]

Timer(r) ==
    /\ r \in DOMAIN runs
    /\ runs[r].pc = "timer"
    /\ uploading' = SetState(runs[r].live, FALSE, uploading)
    /\ uploadProgress' = SetState(runs[r].live, 0, uploadProgress)
    /\ NavigateCall(AfterTimer(runs[r]).navTo, [runs EXCEPT ![r] = AfterTimer(@)])
    /\ toast' = <<>>
    /\ download' = <<>>
    /\ resp' = NoResponse
    /\ last' = [Step("timer", r, Null, runs[r].live) EXCEPT !.mount = (route = Root)]
    /\ UNCHANGED <<calls, exportReqs, events>>

\* The endpoint a run is awaiting at pc.
Awaited(pc) == IF pc = "upload" THEN "upload-call" ELSE pc

\* Mutant: the timer and navigation placed after the try/catch.
CaughtThenNavigate(run) ==
    [run EXCEPT !.pc = "timer", !.rejected = Awaited(run.pc),
                !.errToasts = @ + 1]

\* Mutant: the catch block issues the rejected request again.
CaughtRetry(run) ==
    [run EXCEPT !.rejected = Awaited(run.pc), !.errToasts = @ + 1,
                !.reqs = Append(@, @[Len(@)])]

\* The catch block of handleFileUpload.
Caught(run) ==
    [run EXCEPT !.pc = "failed", !.rejected = Awaited(run.pc),
                !.errToasts = @ + 1]

\* Mutant: the catch block without setUploadProgress(0).
CatchKeepsProgress(r, detail) ==
    /\ Pending(r)
    /\ runs' = [runs EXCEPT ![r] = Caught(@)]
    /\ toast' = <<ToastError(IF detail # Null THEN detail ELSE "Upload failed")>>
    /\ uploading' = SetState(runs[r].live, FALSE, uploading)
    /\ uploadProgress' = uploadProgress
    /\ sent' = NewReqs(runs[r], runs'[r])
    /\ download' = <<>>
    /\ resp' = Rejected
    /\ last' = Step("catch", r, Null, runs[r].live)
    /\ UNCHANGED <<route, calls, listReqs, detailVars, detailReqs, exportReqs,
                   events>>

\* The upload, transcribe or analyze request of run r is rejected.
Catch(r, detail) ==
    /\ Pending(r)
    /\ runs' = [runs EXCEPT ![r] = Caught(@)]
    /\ toast' = <<ToastError(IF detail # Null THEN detail ELSE "Upload failed")>>
    /\ uploading' = SetState(runs[r].live, FALSE, uploading)
    /\ uploadProgress' = SetState(runs[r].live, 0, uploadProgress)
    /\ sent' = NewReqs(runs[r], runs'[r])
    /\ download' = <<>>
    /\ resp' = Rejected
    /\ last' = Step("catch", r, Null, runs[r].live)
    /\ UNCHANGED <<route, calls, listReqs, detailVars, detailReqs, exportReqs,
                   events>>

\* The View Details button of the row of call c.
ViewDetails(c) ==
    /\ route = Root
    /\ \E i \in 1..Len(calls) : calls[i] = c
    /\ events < MaxEvents
    /\ events' = events + 1
    /\ NavigateCall(c, runs)
    /\ toast' = <<>>
    /\ download' = <<>>
    /\ resp' = NoResponse
    /\ last' = [Step("viewDetails", 0, c, TRUE) EXCEPT !.mount = (route = Root)]
    /\ UNCHANGED <<dashVars, exportReqs>>

----------------------------------------------------------------------------
\* CallDetails.

\* fetchCallDetails: the request succeeds.
FetchCallDetailsOk(q) ==
    /\ BagIn(q, detailReqs)
    /\ detailReqs' = detailReqs (-) SetToBag({q})
    /\ resp' = RecordResponse(q.callId)
    /\ callData' = SetState(q.live, resp'.record, callData)
    /\ loading' = SetState(q.live, FALSE, loading)
    /\ toast' = <<>>
    /\ sent' = <<>>
    /\ download' = <<>>
    /\ last' = StepDetail("fetchCallDetailsOk", q)
    /\ UNCHANGED <<route, dashVars, listReqs, runs, exportReqs, events>>

\* fetchCallDetails: the request is rejected.
FetchCallDetailsFail(q) ==
    /\ BagIn(q, detailReqs)
    /\ detailReqs' = detailReqs (-) SetToBag({q})
    /\ loading' = SetState(q.live, FALSE, loading)
    /\ toast' = <<ToastError("Failed to load call details")>>
    /\ sent' = <<>>
    /\ download' = <<>>
    /\ resp' = Rejected
    /\ last' = StepDetail("fetchCallDetailsFail", q)
    /\ UNCHANGED <<route, dashVars, listReqs, runs, callData, exportReqs,
                   events>>

\* The Back button of the record view and the Back to Dashboard button of
\* the "Call not found" view; the loading view has neither.
Back ==
    /\ route # Root
    /\ ~loading
    /\ events < MaxEvents
    /\ events' = events + 1
    /\ NavigateRoot
    /\ toast' = <<>>
    /\ download' = <<>>
    /\ resp' = NoResponse
    /\ last' = Step("back", 0, Null, TRUE)
    /\ UNCHANGED exportReqs

\* format.toUpperCase() in the success toast.
ExportedText(format) ==
    CASE format = "csv" -> "Report exported as CSV"
      [] format = "pdf" -> "Report exported as PDF"

\* What handleExport has done when it suspends at its request: callId and
\* callData are those of the render the click happened in.
ExportRequest(callId, format, data) ==
    [callId |-> callId, format |-> format, filename |-> data.filename]

\* Mutant: the export shows the loading view while its request is pending.
HandleExportLoading(format) ==
    /\ route # Root
    /\ ~loading
    /\ callData # NullData
    /\ events < MaxEvents
    /\ events' = events + 1
    /\ exportReqs' = exportReqs (+) SetToBag({ExportRequest(route, format, callData)})
    /\ loading' = TRUE
    /\ toast' = <<>>
    /\ sent' = <<ApiExport(route, format)>>
    /\ download' = <<>>
    /\ resp' = NoResponse
    /\ last' = Step("handleExport", 0, format, TRUE)
    /\ UNCHANGED <<route, dashVars, listReqs, runs, callData, detailReqs>>

\* The Export CSV and Export PDF buttons, which only the record view has.
HandleExport(format) ==
    /\ route # Root
    /\ ~loading
    /\ callData # NullData
    /\ events < MaxEvents
    /\ events' = events + 1
    /\ exportReqs' = exportReqs (+) SetToBag({ExportRequest(route, format, callData)})
    /\ toast' = <<>>
    /\ sent' = <<ApiExport(route, format)>>
    /\ download' = <<>>
    /\ resp' = NoResponse
    /\ last' = Step("handleExport", 0, format, TRUE)
    /\ UNCHANGED <<route, dashVars, listReqs, runs, detailVars, detailReqs>>

\* Mutant: the link is built and never clicked.
DownloadLinkUnclicked(q, blob) == <<>>

\* The link handleExport clicks once the blob arrived.
DownloadLink(q, blob) ==
    <<[blob |-> blob, name |-> <<q.filename, "_report.", q.format>>]>>

\* handleExport: the request succeeds.
ExportOk(q) ==
    /\ BagIn(q, exportReqs)
    /\ exportReqs' = exportReqs (-) SetToBag({q})
    /\ resp' = BlobResponse(q.callId, q.format)
    /\ download' = DownloadLink(q, resp'.blob)
    /\ toast' = <<ToastSuccess(ExportedText(q.format))>>
    /\ sent' = <<>>
    /\ last' = Step("exportOk", 0, q.format, TRUE)
    /\ UNCHANGED <<route, dashVars, listReqs, runs, detailVars, detailReqs,
                   events>>

\* handleExport: the request is rejected.
ExportFail(q) ==
    /\ BagIn(q, exportReqs)
    /\ exportReqs' = exportReqs (-) SetToBag({q})
    /\ download' = <<>>
    /\ toast' = <<ToastError("Failed to export report")>>
    /\ sent' = <<>>
    /\ resp' = Rejected
    /\ last' = Step("exportFail", 0, q.format, TRUE)
    /\ UNCHANGED <<route, dashVars, listReqs, runs, detailVars, detailReqs,
                   events>>

----------------------------------------------------------------------------
Next ==
    \/ \E q \in BagToSet(listReqs) :
          \/ \E data \in ListPayloads : FetchCallsOk(q, data)
          \/ FetchCallsFail(q)
    \/ HandleFileUpload
    \/ HandleNoFile
    \/ \E r \in DOMAIN runs, id \in CallIds : UploadOk(r, id)
    \/ \E r \in DOMAIN runs : TranscribeOk(r)
    \/ \E r \in DOMAIN runs : AnalyzeOk(r)
    \/ \E r \in DOMAIN runs, data \in ListPayloads : RefreshOk(r, data)
    \/ \E r \in DOMAIN runs : RefreshFail(r)
    \/ \E r \in DOMAIN runs : Timer(r)
    \/ \E r \in DOMAIN runs, detail \in ErrorDetails : Catch(r, detail)
    \/ \E c \in CallIds : ViewDetails(c)
    \/ \E q \in BagToSet(detailReqs) :
          \/ FetchCallDetailsOk(q)
          \/ FetchCallDetailsFail(q)
    \/ Back
    \/ \E format \in Formats : HandleExport(format)
    \/ \E q \in BagToSet(exportReqs) :
          \/ ExportOk(q)
          \/ ExportFail(q)

Spec == Init /\ [][Next]_vars

\* The requests settle and timers fire: what the claims about a run that
\* went through (every request of it answered) take for granted.
RefreshSettles(r) == RefreshFail(r) \/ \E data \in ListPayloads : RefreshOk(r, data)

LiveSpec ==
    /\ Spec
    /\ \A r \in 1..MaxEvents : WF_vars(RefreshSettles(r)) /\ WF_vars(Timer(r))

----------------------------------------------------------------------------
\* The first three requests of a run, given the call_id its upload returned.
PipelineRequests(id) == <<ApiUploadCall, ApiTranscribe(id), ApiAnalyze(id)>>

Min(a, b) == IF a < b THEN a ELSE b

ErrorToasts(ts) == {i \in 1..Len(ts) : ts[i].kind = "error"}

\* C1: the requests of one run are upload-call, transcribe, analyze in that
\* order; transcribe is issued only once the upload succeeded, analyze only
\* once transcribe succeeded, and both carry the call_id of the upload
\* response.
C1_PipelineOrder ==
    /\ \A r \in DOMAIN runs :
         LET run == runs[r]
             n == Min(Len(run.reqs), 3)
         IN  /\ n >= 1
             /\ SubSeq(run.reqs, 1, n) = SubSeq(PipelineRequests(run.respId), 1, n)
             /\ n >= 2 => "upload-call" \in run.ok /\ run.respId \in CallIds
             /\ n >= 3 => "transcribe" \in run.ok
    /\ last.op = "handleFileUpload" => sent = <<ApiUploadCall>>
    /\ last.op = "uploadOk" =>
         /\ runs[last.run].respId = resp.call_id
         /\ sent = <<ApiTranscribe(resp.call_id)>>
    /\ last.op = "transcribeOk" => sent = <<ApiAnalyze(runs[last.run].respId)>>

C1_Witness ==
    /\ last.op = "transcribeOk"
    /\ runs[last.run].respId = "c2"
    /\ Len(runs[last.run].reqs) = 3

\* C2: a run whose upload, transcribe or analyze request was rejected showed
\* exactly one error toast, never navigates, and its catch block left
\* uploading false and uploadProgress 0.
C2_RejectedRun ==
    /\ \A r \in DOMAIN runs :
         runs[r].rejected # Null =>
           /\ runs[r].errToasts = 1
           /\ runs[r].navTo = Null
           /\ runs[r].pc = "failed"
    /\ last.op = "catch" =>
         /\ runs[last.run].rejected \in {"upload-call", "transcribe", "analyze"}
         /\ Len(toast) = 1
         /\ Cardinality(ErrorToasts(toast)) = 1
         /\ last.live => ~uploading /\ uploadProgress = 0

C2_Witness ==
    /\ last.op = "catch"
    /\ last.live
    /\ runs[last.run].rejected = "transcribe"

\* What a run that got past analyze has done, and what its callback leaves.
C3_Navigated ==
    /\ \A r \in DOMAIN runs :
         /\ runs[r].pc = "done" =>
              /\ runs[r].ok = {"upload-call", "transcribe", "analyze"}
              /\ runs[r].navTo = runs[r].respId
              /\ runs[r].respId \in CallIds
         /\ "analyze" \in runs[r].ok => runs[r].pc \in {"refresh", "timer", "done"}
    /\ last.op \in {"refreshOk", "refreshFail"} => runs[last.run].pc = "timer"
    /\ last.op = "timer" =>
         /\ runs[last.run].pc = "done"
         /\ route = runs[last.run].respId
         /\ last.live => ~uploading /\ uploadProgress = 0

\* C3: a run whose upload, transcribe and analyze requests all succeeded
\* eventually navigates to /call/<call_id of the upload response>, its
\* callback leaving uploading false and uploadProgress 0, whether its list
\* refresh succeeded or was rejected.
C3_Navigates ==
    /\ [] C3_Navigated
    /\ \A r \in 1..MaxEvents :
         (r \in DOMAIN runs /\ "analyze" \in runs[r].ok)
           ~> (r \in DOMAIN runs /\ runs[r].pc = "done")

C3_Witness ==
    /\ last.op = "timer"
    /\ last.live
    /\ route = "c2"
    /\ runs[last.run].pc = "done"

\* uploadProgress by the await the run of the mounted Dashboard is at.
C4_ProgressState ==
    /\ \A r \in DOMAIN runs :
         runs[r].live =>
           /\ runs[r].pc = "upload" => uploadProgress = 30
           /\ runs[r].pc = "transcribe" => uploadProgress = 50
           /\ runs[r].pc = "analyze" => uploadProgress = 75
           /\ runs[r].pc \in {"refresh", "timer"} => uploadProgress = 100
    /\ route = Root =>
         /\ uploadProgress >= 50 =>
              \E r \in DOMAIN runs : runs[r].live /\ "upload-call" \in runs[r].ok
         /\ uploadProgress >= 75 =>
              \E r \in DOMAIN runs : runs[r].live /\ "transcribe" \in runs[r].ok
         /\ uploadProgress >= 100 =>
              \E r \in DOMAIN runs : runs[r].live /\ "analyze" \in runs[r].ok
         /\ uploadProgress = 0 <=>
              ~ \E r \in DOMAIN runs : runs[r].live /\ InProgress(r)

\* No step of a run that goes on lowers uploadProgress.
C4_ProgressStep ==
    \A r \in DOMAIN runs :
        (runs[r].live /\ InProgress(r) /\ runs'[r].live
           /\ runs'[r].pc \notin {"done", "failed"})
        => uploadProgress' >= uploadProgress

\* C4: while a run is in progress on its Dashboard, uploadProgress is 30
\* while the upload is pending, 50 once the upload succeeded, 75 once the
\* transcription succeeded, 100 once the analysis succeeded; it never
\* decreases during the run and is 0 only when no run is in progress.
C4_Progress == [] C4_ProgressState /\ [][C4_ProgressStep]_vars

C4_Witness ==
    \E r \in DOMAIN runs :
        runs[r].live /\ runs[r].pc = "timer" /\ uploadProgress = 100

\* C5: a run requests each endpoint at most once, and the rejected request
\* is the last request the run ever issues.
C5_NoRetry ==
    /\ \A r \in DOMAIN runs :
         LET run == runs[r]
         IN  /\ \A i, j \in 1..Len(run.reqs) :
                   run.reqs[i].ep = run.reqs[j].ep => i = j
             /\ run.rejected # Null =>
                   /\ run.pc = "failed"
                   /\ run.reqs[Len(run.reqs)].ep = run.rejected
    /\ last.op = "catch" => sent = <<>>
    /\ \A i \in 1..Len(sent) :
         sent[i].ep \in {"upload-call", "transcribe", "analyze"} =>
           /\ last.run \in DOMAIN runs
           /\ runs[last.run].rejected = Null

C5_Witness ==
    \E r \in DOMAIN runs :
        /\ runs[r].rejected = "analyze"
        /\ Len(runs[r].reqs) = 3
        /\ last.op # "catch"

\* The mount request and what its settling leaves.
C6_MountState ==
    /\ last.op \in {"mount", "back"} =>
         /\ sent = <<ApiCalls>>
         /\ CopiesIn([live |-> TRUE], listReqs) = 1
    /\ last.op = "fetchCallsOk" /\ last.live => calls = resp.list
    /\ last.op = "fetchCallsFail" => toast = <<ToastError("Failed to load calls")>>

\* C6: a Dashboard that mounts issues one GET /calls; when that request
\* succeeds calls is the response payload, when it is rejected calls is left
\* as it was and an error toast is shown.
C6_MountFetch ==
    /\ [] C6_MountState
    /\ [][last'.op = "fetchCallsFail" => calls' = calls]_vars

C6_Witness ==
    /\ last.op = "fetchCallsOk"
    /\ last.live
    /\ calls = <<"c1", "c2">>
    /\ events > 0

\* C7: CallDetails requests the record of callId on mount; loading is true
\* until that request settles and false once it settled; on success
\* callData is the response payload, on rejection callData is still null
\* and an error toast is shown.
C7_MountedDetail ==
    /\ last.op \in {"viewDetails", "timer"} /\ last.mount =>
         /\ sent = <<ApiCall(route)>>
         /\ loading /\ callData = NullData
    /\ \A q \in BagToSet(detailReqs) : q.live /\ q.mount => loading
    /\ last.op = "fetchCallDetailsOk" /\ last.live /\ last.mount =>
         ~loading /\ callData = resp.record
    /\ last.op = "fetchCallDetailsFail" /\ last.live /\ last.mount =>
         /\ ~loading
         /\ callData = NullData
         /\ toast = <<ToastError("Failed to load call details")>>

\* C8: handleExport(format) issues one request for the current callId in
\* that format; when it succeeds one download of the returned payload is
\* triggered, when it is rejected none is and an error toast is shown.
C8_Export ==
    /\ last.op = "handleExport" =>
         /\ sent = <<ApiExport(route, last.arg)>>
         /\ download = <<>>
    /\ last.op = "exportOk" =>
         /\ Len(download) = 1
         /\ download[1].blob = resp.blob
    /\ last.op = "exportFail" =>
         /\ download = <<>>
         /\ toast = <<ToastError("Failed to export report")>>
    /\ last.op # "handleExport" => \A i \in 1..Len(sent) : sent[i].ep # "export"
    /\ last.op # "exportOk" => download = <<>>

C8_Witness ==
    /\ last.op = "exportOk"
    /\ last.arg = "pdf"
    /\ Len(download) = 1

\* C9: handleExport, whether its request succeeds or is rejected, leaves
\* callData, loading and the route as they were.
C9_ExportFrame ==
    [][last'.op \in {"handleExport", "exportOk", "exportFail"}
         => UNCHANGED <<callData, loading, route>>]_vars

C9_Witness ==
    /\ last.op = "exportFail"
    /\ route \in CallIds
    /\ callData = CallRecord(route)

\* C10: at most one upload pipeline is in flight: uploading is true on the
\* Dashboard of a run for as long as the run has not ended, the file input
\* takes no selection while uploading is true, and no upload-call request
\* is issued while an earlier run has not ended.
C10_SinglePipeline ==
    /\ \A r \in DOMAIN runs : runs[r].live /\ InProgress(r) => uploading
    /\ uploading => ~ ENABLED HandleFileUpload
    /\ \A r, s \in DOMAIN runs : InProgress(r) /\ InProgress(s) => r = s
    /\ last.op = "handleFileUpload" =>
         \A s \in DOMAIN runs : s # last.run => ~InProgress(s)

\* C11: whenever CallDetails shows a call record (loading is false and
\* callData is non-null), the record is the response to the request made
\* for the current route callId.
C11_ShownRecord ==
    route # Root /\ ~loading /\ callData # NullData =>
        callData = RecordResponse(route).record

\* Dashboard state: uploading = false implies uploadProgress = 0, and
\* uploading = true implies uploadProgress is one of 10, 30, 50, 75, 100.
C12_UploadState ==
    route = Root =>
        /\ ~uploading => uploadProgress = 0
        /\ uploading => uploadProgress \in {10, 30, 50, 75, 100}

\* A file-selection event with no file changes neither uploading nor
\* uploadProgress and issues no request.
C12_NoFileStep ==
    last'.op = "handleNoFile" =>
        /\ uploading' = uploading
        /\ uploadProgress' = uploadProgress
        /\ sent' = <<>>
        /\ runs' = runs
        /\ listReqs' = listReqs

\* C12: in every Dashboard state uploading = false implies uploadProgress
\* = 0 and uploading = true implies uploadProgress is one of 10, 30, 50,
\* 75, 100; a file-selection event with no file changes neither variable
\* and issues no request.
C12_UploadProgress ==
    /\ [] C12_UploadState
    /\ [][C12_NoFileStep]_vars

\* A cancelled file selection on a Dashboard whose run was rejected after
\* the upload succeeded: uploading and uploadProgress are back at false, 0.
C12_Witness ==
    /\ last.op = "handleNoFile"
    /\ route = Root
    /\ ~uploading /\ uploadProgress = 0
    /\ \E r \in DOMAIN runs :
         /\ runs[r].live
         /\ runs[r].pc = "failed"
         /\ "upload-call" \in runs[r].ok

====
